---- MODULE Spec2Model ----
(***************************************************************************)
(* The LiveBG animation engines (src/livebg/animations) as one state       *)
(* machine.  Every variant is the same closure: a handful of `let`         *)
(* variables, the handlers play / pause / reset / setParams / destroy,     *)
(* the resize listener fitCanvas and the frame callback loop.              *)
(*                                                                         *)
(* Numbers are fixed point:                                                *)
(*   time (performance.now, frame timestamps, dt, zoomPhase)               *)
(*        in units of 1/30000 s, so that 0.0001 s = 3, 1/240 s = 125 and   *)
(*        1/15 s = 2000 are all exact;                                     *)
(*   speed and zoom in hundredths; density in units of 1/10000;            *)
(*   logical time t in units of 1/3000000 (dt * speed * speedScale is      *)
(*        kept as the integer product); for orbitField the unit carries    *)
(*        the factor pi of targetRate = (Math.PI / 20) * 60 = 3 * pi.      *)
(* NaN is a number value of its own and propagates through arithmetic as   *)
(* in JavaScript; Absent stands for a field that is null or undefined.     *)
(***************************************************************************)
EXTENDS Integers, Sequences, FiniteSets, TLC

NaN == -1000000001
Absent == -1000000002

\* ------------------------------------------------------------------ bounds
MaxFrames == 1
MaxClock == 250
MaxTimeFrames == 2
MaxRateClock == 2000
MaxRateFrames == 16
MaxInvalidFrames == 2
MaxFireSteps == 3
MaxLateFrames == 1
MaxRequests == 2
MaxHostFrames == 1

\* ------------------------------------------------------- number semantics
IsNum(x) == x # NaN /\ x # Absent

\* a * b, NaN if either is NaN
Mul(a, b) == IF a = NaN \/ b = NaN THEN NaN ELSE a * b

\* Math.max / Math.min: NaN if either argument is NaN
MathMax(a, b) == IF a = NaN \/ b = NaN THEN NaN ELSE IF a >= b THEN a ELSE b
MathMin(a, b) == IF a = NaN \/ b = NaN THEN NaN ELSE IF a <= b THEN a ELSE b

\* Math.floor(n / d) for d > 0
FloorDiv(n, d) == IF n = NaN \/ d = NaN THEN NaN ELSE n \div d

\* a === b on numbers: NaN is not equal to anything, itself included
StrictEq(a, b) == a # NaN /\ b # NaN /\ a = b

\* new Float32Array(n).length: ToIndex(NaN) is 0
ArrayLen(n) == IF n = NaN THEN 0 ELSE n

\* !!x for a flag that is absent, 0 or 1
Truthy(x) == x = 1

\* typeof x === 'number' ? x : dflt  (NaN is a number)
NumOr(x, dflt) == IF x = Absent THEN dflt ELSE x

\* ------------------------------------------------------ program constants
Variants == {"template", "vortex", "swirl", "orbit", "fire"}
PointVariants == Variants \ {"fire"}

minPoints(v) == IF v = "swirl" THEN 3000 ELSE 6000
maxPoints(v) == IF v \in {"vortex", "swirl"} THEN 90000 ELSE 120000

\* speedScale (orbit: targetRate / pi)
speedScale(v) == CASE v = "swirl" -> 45
                   [] v = "orbit" -> 3
                   [] OTHER -> 60

DefaultDensity(v) == CASE v = "swirl" -> 45
                       [] v = "fire" -> 3000
                       [] OTHER -> 50
DefaultSpeed(v) == CASE v = "orbit" -> 5
                     [] v = "swirl" -> 10
                     [] v = "fire" -> 20
                     [] OTHER -> 50
DefaultZoom == 100
InitialFps == 60

\* 0.0001 s, the floor of dt
Epsilon == 3
TicksPerSec == 30000
DensityUnit == 10000

\* ------------------------------------------------------------------ state
VARIABLES
  variant,      \* which module was imported
  phase,        \* "none" before createAnimation, "live", "destroyed"; "threw"
                \* if createAnimation threw
  W, H,         \* viewport, CSS pixels
  baseDensity,
  N,            \* particle count (point fields)
  attrs,        \* the per-particle arrays: their length and the random draws
  gridW, gridH, gridSize,
  buffer,       \* fire intensity buffer: its length, and whether any cell is lit
  t,            \* logical time
  speed,
  running,
  last,         \* timestamp of the previous frame
  fpsEMA,
  zoom,
  zoomAuto,
  zoomPhase,
  rafId,        \* 0 is null
  queue,        \* the browser's pending animation-frame requests
  listening,    \* fitCanvas is registered as the window's resize listener
  innerW, innerH, \* window.innerWidth / innerHeight
  clock,        \* performance.now()
  calls,        \* onStats invocations made by the last handler, in order
  regens,       \* field regenerations done by the last handler
  draws,        \* background clearRect / fillRect calls issued by the last handler
  steps,        \* stepFire iterations run by the last handler
  bodyRan,      \* the last handler was a frame that got past `if (!running) return`
  frames,       \* frame callbacks delivered so far
  lastOp,       \* the last handler
  arg,          \* the parameter object it was called with
  pre,          \* the closure's variables when the last handler was entered
  playedAt,     \* performance.now() when the loop was last started
  pausedAt,     \* performance.now() when the loop was last stopped
  sincePlay,    \* frame bodies run since then
  fire,         \* fireField's grid with its buffer cell by cell
  fit,          \* orbitField's bounding-box fit of the last frame
  host,         \* main.js: its UI state, its selector, its loads and the
                \* engines it has created
  hostLog       \* what the host's last event did: the selector changes so
                \* far, the request the running load serves, the requests
                \* it turned away, and the engines whose callbacks ran

Self ==
  [variant |-> variant, phase |-> phase, W |-> W, H |-> H,
   baseDensity |-> baseDensity, N |-> N, attrs |-> attrs,
   gridW |-> gridW, gridH |-> gridH, gridSize |-> gridSize, buffer |-> buffer,
   t |-> t, speed |-> speed, running |-> running, last |-> last,
   fpsEMA |-> fpsEMA, zoom |-> zoom, zoomAuto |-> zoomAuto,
   zoomPhase |-> zoomPhase, rafId |-> rafId, queue |-> queue,
   listening |-> listening,
   calls |-> <<>>, regens |-> 0, draws |-> 0, steps |-> 0, bodyRan |-> FALSE]

vars ==
  <<variant, phase, W, H, baseDensity, N, attrs, gridW, gridH, gridSize,
    buffer, t, speed, running, last, fpsEMA, zoom, zoomAuto, zoomPhase,
    rafId, queue, listening, innerW, innerH, clock, calls, regens, draws,
    steps, bodyRan, frames, lastOp, arg, pre, playedAt, pausedAt, sincePlay,
    fire, fit, host, hostLog>>

\* The closure's variables become those of record r
Become(r) ==
  /\ variant' = r.variant /\ phase' = r.phase /\ W' = r.W /\ H' = r.H
  /\ baseDensity' = r.baseDensity /\ N' = r.N /\ attrs' = r.attrs
  /\ gridW' = r.gridW /\ gridH' = r.gridH /\ gridSize' = r.gridSize
  /\ buffer' = r.buffer /\ t' = r.t /\ speed' = r.speed
  /\ running' = r.running /\ last' = r.last /\ fpsEMA' = r.fpsEMA
  /\ zoom' = r.zoom /\ zoomAuto' = r.zoomAuto /\ zoomPhase' = r.zoomPhase
  /\ rafId' = r.rafId /\ queue' = r.queue /\ listening' = r.listening
  /\ calls' = r.calls /\ regens' = r.regens /\ draws' = r.draws
  /\ steps' = r.steps /\ bodyRan' = r.bodyRan

\* onStats({k: v})
Stat(s, k, v) == [s EXCEPT !.calls = Append(@, <<k, v>>)]

\* ------------------------------------------------------- field generation
\* Mutant: the count is not clamped to maxPoints
Target_NoUpperClamp(v, d, w, h) ==
  MathMax(minPoints(v), FloorDiv(Mul(Mul(d, w), h), DensityUnit))

\* Mutant: the count is not raised to minPoints
Target_NoLowerClamp(v, d, w, h) ==
  MathMin(maxPoints(v), FloorDiv(Mul(Mul(d, w), h), DensityUnit))

Target(v, d, w, h) ==
  MathMin(maxPoints(v),
          MathMax(minPoints(v), FloorDiv(Mul(Mul(d, w), h), DensityUnit)))

\* Mutant: the field is regenerated on every call
rebuildPointField_Always(s, seed) ==
  LET target == Target(s.variant, s.baseDensity, s.W, s.H)
  IN Stat([s EXCEPT !.N = target,
                    !.attrs = [len |-> ArrayLen(target),
                               seed |-> IF s.variant = "orbit"
                                        THEN 0 ELSE seed],
                    !.regens = @ + 1],
          "points", target)

\* rebuildPointField / rebuildField; seed stands for the Math.random draws
\* of the layout (orbitField's layout is a function of the index alone)
rebuildPointField(s, seed) ==
  LET target == Target(s.variant, s.baseDensity, s.W, s.H)
      same == IF s.variant = "orbit"
              THEN StrictEq(target, s.N)
              ELSE StrictEq(target, s.N) /\ s.attrs.len = target
  IN IF same
     THEN IF s.variant = "orbit" THEN s ELSE Stat(s, "points", s.N)
     ELSE Stat([s EXCEPT !.N = target,
                         !.attrs = [len |-> ArrayLen(target),
                                    seed |-> IF s.variant = "orbit"
                                             THEN 0 ELSE seed],
                         !.regens = @ + 1],
               "points", target)

\* cellSize * 1000
CellSize(d) == MathMax(14000, IF d = NaN THEN NaN ELSE 28000 - d)

\* gridW = max(24, floor(W / cellSize)),
\* gridH = max(18, floor(H / (cellSize * 0.8)))
GridW(d, w) ==
  MathMax(24, FloorDiv(Mul(w, 1000),
                       CellSize(MathMax(0, MathMin(DensityUnit, d)))))
GridH(d, h) ==
  MathMax(18, FloorDiv(Mul(h, 1250),
                       CellSize(MathMax(0, MathMin(DensityUnit, d)))))

rebuildGrid(s) ==
  LET gw == GridW(s.baseDensity, s.W)
      gh == GridH(s.baseDensity, s.H)
      gs == Mul(gw, gh)
  IN Stat([s EXCEPT !.gridW = gw, !.gridH = gh, !.gridSize = gs,
                    !.buffer = [len |-> IF gs = NaN THEN 0 ELSE gs + gw + 1,
                                lit |-> FALSE],
                    !.regens = @ + 1],
          "points", gs)

rebuild(s, seed) ==
  IF s.variant = "fire" THEN rebuildGrid(s) ELSE rebuildPointField(s, seed)

fitCanvas(s, iw, ih, seed) ==
  rebuild([s EXCEPT !.W = iw, !.H = ih], seed)

\* ------------------------------------------------------------- lifecycle
\* requestAnimationFrame(loop): the browser hands out an id it has not
\* handed out before; the smallest id not in use stands for it
FreshId(s) == CHOOSE i \in 1..(Cardinality(s.queue) + 2) :
                 /\ i \notin s.queue /\ i # s.rafId
                 /\ \A j \in 1..(i - 1) : j \in s.queue \/ j = s.rafId

requestFrame(s) ==
  LET id == FreshId(s) IN [s EXCEPT !.rafId = id, !.queue = @ \cup {id}]

\* Mutant: the timestamp of the last frame is kept across the pause
play_KeepsLast(s, now) ==
  IF s.running THEN s
  ELSE requestFrame([s EXCEPT !.running = TRUE])

\* Mutant: resuming catches up on the time spent paused
play_CatchUp(s, now) ==
  IF s.running THEN s
  ELSE requestFrame([s EXCEPT !.running = TRUE, !.last = now,
                              !.t = @ + Mul(Mul(MathMax(0, now - s.last),
                                                s.speed),
                                            speedScale(s.variant))])

\* Mutant: play starts the loop whether or not it is running
play_Always(s, now) ==
  requestFrame([s EXCEPT !.running = TRUE, !.last = now])

\* now is performance.now()
play(s, now) ==
  IF s.running THEN s
  ELSE requestFrame([s EXCEPT !.running = TRUE, !.last = now])

\* Mutant: the pending request is not cancelled
pause_NoCancel(s) == [s EXCEPT !.running = FALSE]

\* Mutant: the request is cancelled but rafId keeps its id
pause_KeepsRafId(s) ==
  LET s1 == [s EXCEPT !.running = FALSE]
  IN IF s1.rafId # 0 THEN [s1 EXCEPT !.queue = @ \ {s1.rafId}] ELSE s1

pause(s) ==
  LET s1 == [s EXCEPT !.running = FALSE]
  IN IF s1.rafId # 0
     THEN [s1 EXCEPT !.queue = @ \ {s1.rafId}, !.rafId = 0]
     ELSE s1

\* Mutant: reset also stops the loop
reset_Pauses(s) ==
  LET r == CASE s.variant = "orbit" -> [s EXCEPT !.t = 0]
             [] s.variant = "fire" ->
                  [s EXCEPT !.buffer = [@ EXCEPT !.lit = FALSE],
                            !.zoomPhase = 0]
             [] OTHER -> [s EXCEPT !.t = 0, !.zoomPhase = 0]
  IN [r EXCEPT !.running = FALSE]

reset(s) ==
  CASE s.variant = "orbit" -> [s EXCEPT !.t = 0]
    [] s.variant = "fire" ->
         [s EXCEPT !.buffer = [@ EXCEPT !.lit = FALSE], !.zoomPhase = 0]
    [] OTHER -> [s EXCEPT !.t = 0, !.zoomPhase = 0]

\* Mutant: a density change restarts the animation clock
setParams_ResetsClock(s, p, seed) ==
  LET s1 == IF p.speed # Absent
            THEN Stat([s EXCEPT !.speed = p.speed], "speed", p.speed)
            ELSE s
      s2 == IF p.density # Absent
            THEN rebuild([s1 EXCEPT !.baseDensity = p.density,
                                    !.t = 0, !.zoomPhase = 0], seed)
            ELSE s1
      s3 == IF p.zoom # Absent
            THEN Stat([s2 EXCEPT !.zoom = p.zoom], "zoom", p.zoom)
            ELSE s2
  IN IF p.zoomAuto # Absent
     THEN [s3 EXCEPT !.zoomAuto = Truthy(p.zoomAuto),
                     !.zoomPhase = IF Truthy(p.zoomAuto) THEN @ ELSE 0]
     ELSE s3

\* Mutant: a new zoom is stored without being echoed
setParams_SilentZoom(s, p, seed) ==
  LET s1 == IF p.speed # Absent
            THEN Stat([s EXCEPT !.speed = p.speed], "speed", p.speed)
            ELSE s
      s2 == IF p.density # Absent
            THEN rebuild([s1 EXCEPT !.baseDensity = p.density], seed)
            ELSE s1
      s3 == IF p.zoom # Absent THEN [s2 EXCEPT !.zoom = p.zoom] ELSE s2
  IN IF p.zoomAuto # Absent
     THEN [s3 EXCEPT !.zoomAuto = Truthy(p.zoomAuto),
                     !.zoomPhase = IF Truthy(p.zoomAuto) THEN @ ELSE 0]
     ELSE s3

\* Mutant: a new zoom rebuilds the field
setParams_RebuildsOnZoom(s, p, seed) ==
  LET s1 == IF p.speed # Absent
            THEN Stat([s EXCEPT !.speed = p.speed], "speed", p.speed)
            ELSE s
      s2 == IF p.density # Absent
            THEN rebuild([s1 EXCEPT !.baseDensity = p.density], seed)
            ELSE s1
      s3 == IF p.zoom # Absent
            THEN rebuild(Stat([s2 EXCEPT !.zoom = p.zoom], "zoom", p.zoom),
                         seed)
            ELSE s2
  IN IF p.zoomAuto # Absent
     THEN [s3 EXCEPT !.zoomAuto = Truthy(p.zoomAuto),
                     !.zoomPhase = IF Truthy(p.zoomAuto) THEN @ ELSE 0]
     ELSE s3

\* p.speed, p.density, p.zoom, p.zoomAuto: a value, or Absent
setParams(s, p, seed) ==
  LET s1 == IF p.speed # Absent
            THEN Stat([s EXCEPT !.speed = p.speed], "speed", p.speed)
            ELSE s
      s2 == IF p.density # Absent
            THEN rebuild([s1 EXCEPT !.baseDensity = p.density], seed)
            ELSE s1
      s3 == IF p.zoom # Absent
            THEN Stat([s2 EXCEPT !.zoom = p.zoom], "zoom", p.zoom)
            ELSE s2
  IN IF p.zoomAuto # Absent
     THEN [s3 EXCEPT !.zoomAuto = Truthy(p.zoomAuto),
                     !.zoomPhase = IF Truthy(p.zoomAuto) THEN @ ELSE 0]
     ELSE s3

\* Mutant: destroy stops the loop but leaves the resize listener registered
destroy_KeepsListener(s) == [pause(s) EXCEPT !.phase = "destroyed"]

destroy(s) == [pause(s) EXCEPT !.listening = FALSE, !.phase = "destroyed"]

\* ------------------------------------------------------------ frame loop
Add(a, b) == IF a = NaN \/ b = NaN THEN NaN ELSE a + b

\* Math.round(speed * 4), speed in hundredths
Round4(sp) == IF sp = NaN THEN NaN ELSE (sp * 4 + 50) \div 100

\* stepFire(n): nothing happens on an empty or NaN-sized grid; otherwise the
\* bottom row is seeded in each of the n steps
stepFire(s, n) ==
  IF s.gridSize = 0 \/ s.gridSize = NaN \/ n = NaN THEN s
  ELSE [s EXCEPT !.steps = n, !.buffer = [@ EXCEPT !.lit = TRUE]]

\* background calls before the points are drawn
BackgroundCalls(v) == IF v \in {"vortex", "swirl"} THEN 1 ELSE 2

\* Mutant: the number of steps is not raised to one
frameBody_NoMinimumStep(s0, now, dt) ==
  LET fps == TicksPerSec \div dt
      s1 == [s0 EXCEPT !.last = now,
                       !.fpsEMA = (@ * 9 + fps) \div 10,
                       !.bodyRan = TRUE]
      s2 == IF s1.variant = "fire"
            THEN stepFire(s1, Round4(s1.speed))
            ELSE [s1 EXCEPT !.t = Add(@, Mul(Mul(dt, s1.speed),
                                            speedScale(s1.variant)))]
      s3 == IF s2.zoomAuto
            THEN [s2 EXCEPT !.zoomPhase = @ + dt] ELSE s2
      s4 == Stat(s3, "fps", s3.fpsEMA)
      s5 == [s4 EXCEPT !.draws = BackgroundCalls(s4.variant)]
  IN requestFrame(s5)

\* The frame body after dt has been computed
frameBody(s0, now, dt) ==
  LET fps == TicksPerSec \div dt
      s1 == [s0 EXCEPT !.last = now,
                       !.fpsEMA = (@ * 9 + fps) \div 10,
                       !.bodyRan = TRUE]
      s2 == IF s1.variant = "fire"
            THEN stepFire(s1, MathMax(1, Round4(s1.speed)))
            ELSE [s1 EXCEPT !.t = Add(@, Mul(Mul(dt, s1.speed),
                                            speedScale(s1.variant)))]
      s3 == IF s2.zoomAuto
            THEN [s2 EXCEPT !.zoomPhase = @ + dt] ELSE s2
      s4 == Stat(s3, "fps", s3.fpsEMA)
      s5 == [s4 EXCEPT !.draws = BackgroundCalls(s4.variant)]
  IN requestFrame(s5)

\* Mutant: dt is the raw timestamp difference, not floored at 0.0001 s
\* (the fps estimate keeps the floor: it divides by dt)
loop_NoFloor(s, now, id) ==
  LET s0 == [s EXCEPT !.queue = @ \ {id}]
  IN IF ~s0.running THEN s0
     ELSE
       LET raw == now - s0.last
           b == frameBody(s0, now, MathMax(Epsilon, raw))
       IN [b EXCEPT !.t = IF s0.variant = "fire" THEN @
                          ELSE Add(s0.t, Mul(Mul(raw, s0.speed),
                                             speedScale(s0.variant))),
                    !.zoomPhase = IF s0.zoomAuto
                                  THEN s0.zoomPhase + raw ELSE @]

\* Mutant: every frame advances time by 1/60 s, whatever dt was
loop_FixedStep(s, now, id) ==
  LET s0 == [s EXCEPT !.queue = @ \ {id}]
  IN IF ~s0.running THEN s0
     ELSE
       LET b == frameBody(s0, now, MathMax(Epsilon, now - s0.last))
       IN [b EXCEPT !.t = IF s0.variant = "fire" THEN @
                          ELSE Add(s0.t, Mul(Mul(500, s0.speed),
                                             speedScale(s0.variant)))]

\* loop(now), delivered by the browser for the pending request id
loop(s, now, id) ==
  LET s0 == [s EXCEPT !.queue = @ \ {id}]
  IN IF ~s0.running THEN s0
     ELSE frameBody(s0, now, MathMax(Epsilon, now - s0.last))

\* -------------------------------------------------------- fire simulation
\* fireField's grid cell by cell, intensities in thousandths.  A
\* Float32Array of length n is a sequence of n numbers, buffer[i] its element
\* i + 1.  A read outside the array gives undefined (NaN in arithmetic), a
\* write outside it is ignored.
Float32Array(n) == [i \in 1..ArrayLen(n) |-> 0]
At(buf, i) == IF 0 <= i /\ i < Len(buf) THEN buf[i + 1] ELSE NaN
Put(buf, i, v) ==
  IF 0 <= i /\ i < Len(buf) THEN [buf EXCEPT ![i + 1] = v] ELSE buf

\* v * 0.25 and v * 0.985
Quarter(v) == IF v = NaN THEN NaN ELSE v \div 4
Fade(v) == IF v = NaN THEN NaN ELSE (v * 985) \div 1000

\* The grid's variables before the first rebuildGrid; seeded is the buffer as
\* the last step's seeding left it, touched the indices that step accessed
\* The grid a rebuild replaced: its inputs, its dimensions and its brightest
\* cell
NoGridBefore ==
  [W |-> 0, H |-> 0, baseDensity |-> 0, gridW |-> 0, gridH |-> 0,
   brightest |-> 0]

NoGrid ==
  [W |-> 0, H |-> 0, baseDensity |-> DefaultDensity("fire"),
   gridW |-> 0, gridH |-> 0, gridSize |-> 0, buffer |-> <<>>,
   seeded |-> <<>>, touched |-> {}, written |-> {}, op |-> "none",
   count |-> 0, replaced |-> NoGridBefore]

\* Mutant: the buffer is allocated without the padding row
rebuildCells_NoPadding(f) ==
  LET gw == GridW(f.baseDensity, f.W)
      gh == GridH(f.baseDensity, f.H)
  IN [f EXCEPT !.gridW = gw, !.gridH = gh, !.gridSize = Mul(gw, gh),
               !.buffer = Float32Array(Mul(gw, gh))]

\* Mutant: a rebuild that leaves the grid dimensions as they were keeps the
\* buffer
rebuildCells_KeepsSameGrid(f) ==
  LET gw == GridW(f.baseDensity, f.W)
      gh == GridH(f.baseDensity, f.H)
  IN [f EXCEPT !.gridW = gw, !.gridH = gh, !.gridSize = Mul(gw, gh),
               !.buffer = IF gw = f.gridW /\ gh = f.gridH
                          THEN f.buffer
                          ELSE Float32Array(Add(Add(Mul(gw, gh), gw), 1))]

\* rebuildGrid, with the buffer's cells
rebuildCells(f) ==
  LET gw == GridW(f.baseDensity, f.W)
      gh == GridH(f.baseDensity, f.H)
  IN [f EXCEPT !.gridW = gw, !.gridH = gh, !.gridSize = Mul(gw, gh),
               !.buffer = Float32Array(Add(Add(Mul(gw, gh), gw), 1))]

\* seedCount = max(1, floor(gridW / (6 + 4 * (1 - d))))
seedCount(f) ==
  LET d == MathMax(0, MathMin(DensityUnit, f.baseDensity))
  IN MathMax(1, FloorDiv(Mul(f.gridW, DensityUnit),
                         IF d = NaN THEN NaN
                         ELSE 6 * DensityUnit + 4 * (DensityUnit - d)))

\* "Seed bottom row": seeds is the sequence of <<col, value>> drawn by
\* Math.random, col = (Math.random() * gridW) | 0
RECURSIVE seedBottomRow(_, _, _)
seedBottomRow(f, buf, seeds) ==
  IF seeds = <<>> THEN buf
  ELSE seedBottomRow(f,
                     Put(buf, seeds[1][1] + f.gridW * (f.gridH - 1),
                         seeds[1][2]),
                     Tail(seeds))

\* Mutant: the four cells are summed and not averaged
diffuseCell_Sums(f, buf, i) ==
  Put(buf, i, Add(Add(At(buf, i), At(buf, i + 1)),
                  Add(At(buf, i + f.gridW), At(buf, i + f.gridW + 1))))

\* The body of "Diffuse upwards" for index i, in place
diffuseCell(f, buf, i) ==
  Put(buf, i, Quarter(Add(Add(At(buf, i), At(buf, i + 1)),
                          Add(At(buf, i + f.gridW),
                              At(buf, i + f.gridW + 1)))))

\* The loop `for (i = 0; i < gridSize; i++)` in ascending index order,
\* unrolled as gridH runs of gridW indices: the indices from i up to the
\* end of the run that ends before index stop
RECURSIVE diffuseRun(_, _, _, _)
diffuseRun(f, buf, i, stop) ==
  IF i >= stop \/ buf = <<>> THEN buf
  ELSE diffuseRun(f, diffuseCell(f, buf, i), i + 1, stop)

RECURSIVE diffuse(_, _, _)
diffuse(f, buf, i) ==
  IF i >= f.gridSize THEN buf
  ELSE diffuse(f, diffuseRun(f, buf, i, i + f.gridW), i + f.gridW)

\* Mutant: the global factor brightens
fade_Brightens(f, buf) ==
  [j \in DOMAIN buf |-> IF j <= f.gridSize THEN buf[j] * 5 ELSE buf[j]]

\* "Gentle global fade": buffer[i] *= 0.985 for i < gridSize
fade(f, buf) ==
  [j \in DOMAIN buf |-> IF j <= f.gridSize THEN Fade(buf[j]) ELSE buf[j]]

\* The indices one step reads or writes: the seeds' cells, and for every
\* i < gridSize the cells i, i + 1, i + gridW and i + gridW + 1
Touched(f, seeds) ==
  {seeds[k][1] + f.gridW * (f.gridH - 1) : k \in DOMAIN seeds}
  \cup UNION {{i, i + 1, i + f.gridW, i + f.gridW + 1} :
                i \in 0..(f.gridSize - 1)}

\* The indices one step writes: the seeds' cells and every i < gridSize
Written(f, seeds) ==
  {seeds[k][1] + f.gridW * (f.gridH - 1) : k \in DOMAIN seeds}
  \cup 0..(f.gridSize - 1)

\* stepFire(steps): rounds is one sequence of seeds for each step
RECURSIVE stepCells(_, _)
stepCells(f, rounds) ==
  IF f.gridSize = 0 \/ f.gridSize = NaN \/ rounds = <<>> THEN f
  ELSE LET b1 == seedBottomRow(f, f.buffer, rounds[1])
           b2 == diffuse(f, b1, 0)
           b3 == fade(f, b2)
       IN stepCells([f EXCEPT !.buffer = b3, !.seeded = b1,
                              !.touched = Touched(f, rounds[1]),
                              !.written = Written(f, rounds[1])],
                    Tail(rounds))

\* ------------------------------------------------------------- orbit fit
\* orbitField's per-frame bounding-box fit.  Curve coordinates are integers,
\* zoomNow is in hundredths, and a screen coordinate is the exact fraction
\* num / den with den > 0.
\* minX, maxX, minY, maxY of the transformed points
Extent(pts) ==
  [minX |-> CHOOSE v \in {q[1] : q \in pts} : \A q \in pts : v <= q[1],
   maxX |-> CHOOSE v \in {q[1] : q \in pts} : \A q \in pts : v >= q[1],
   minY |-> CHOOSE v \in {q[2] : q \in pts} : \A q \in pts : v <= q[2],
   maxY |-> CHOOSE v \in {q[2] : q \in pts} : \A q \in pts : v >= q[2]]

\* a || 1
OrOne(a) == IF a = 0 THEN 1 ELSE a

\* Mutant: the looser of the two ratios is taken
scale_Max(e, w, h, z) ==
  LET bw == OrOne(e.maxX - e.minX)
      bh == OrOne(e.maxY - e.minY)
  IN IF w * bh >= h * bw
     THEN [num |-> 23 * w * z, den |-> 2500 * bw]
     ELSE [num |-> 23 * h * z, den |-> 2500 * bh]

\* scale = Math.min((W * margin) / bw, (H * margin) / bh) * zoomNow with
\* margin = 0.92 = 23 / 25
scale(e, w, h, z) ==
  LET bw == OrOne(e.maxX - e.minX)
      bh == OrOne(e.maxY - e.minY)
  IN IF w * bh <= h * bw
     THEN [num |-> 23 * w * z, den |-> 2500 * bw]
     ELSE [num |-> 23 * h * z, den |-> 2500 * bh]

\* x = mx * scale + offX with offX = W * 0.5 - (minX + maxX) * 0.5 * scale;
\* the same for y with H, minY and maxY
screen(m, lo, hi, size, sc) ==
  [num |-> size * sc.den + (2 * m - lo - hi) * sc.num, den |-> 2 * sc.den]

\* The fit of one frame: where each point lands and whether it is drawn
\* (x >= 0 && x < W && y >= 0 && y < H)
fitPoints(pts, w, h, z) ==
  LET e == Extent(pts)
      sc == scale(e, w, h, z)
      at == [q \in pts |->
               [x |-> screen(q[1], e.minX, e.maxX, w, sc),
                y |-> screen(q[2], e.minY, e.maxY, h, sc)]]
  IN [W |-> w, H |-> h, zoomNow |-> z, points |-> pts, extent |-> e,
      at |-> at,
      drawn |-> {q \in pts :
                   /\ at[q].x.num >= 0 /\ at[q].x.num < w * at[q].x.den
                   /\ at[q].y.num >= 0 /\ at[q].y.num < h * at[q].y.den},
      op |-> "fit"]

\* Before the first frame
NoFit ==
  [W |-> 0, H |-> 0, zoomNow |-> DefaultZoom, points |-> {},
   extent |-> [minX |-> 0, maxX |-> 0, minY |-> 0, maxY |-> 0],
   at |-> <<>>, drawn |-> {}, op |-> "none"]

\* ---------------------------------------------------------- construction
\* The closure before createAnimation has run
Blank ==
  [variant |-> "template", phase |-> "none", W |-> 0, H |-> 0,
   baseDensity |-> 0, N |-> 0, attrs |-> [len |-> 0, seed |-> 0],
   gridW |-> 0, gridH |-> 0, gridSize |-> 0,
   buffer |-> [len |-> 0, lit |-> FALSE],
   t |-> 0, speed |-> 0, running |-> FALSE, last |-> 0,
   fpsEMA |-> InitialFps, zoom |-> DefaultZoom, zoomAuto |-> FALSE,
   zoomPhase |-> 0, rafId |-> 0, queue |-> {}, listening |-> FALSE,
   calls |-> <<>>, regens |-> 0, draws |-> 0, steps |-> 0, bodyRan |-> FALSE]

\* {}: a parameter object with no field set
NoParams ==
  [speed |-> Absent, density |-> Absent, zoom |-> Absent,
   zoomAuto |-> Absent, running |-> Absent]

\* undefined: the caller passed no parameter object at all
Undefined ==
  [speed |-> Absent, density |-> Absent, zoom |-> Absent,
   zoomAuto |-> Absent, running |-> Absent, undefined |-> TRUE]

\* The destructuring `{ canvas, initialState = {}, onStats }`; orbitField
\* destructures `initialState` without a default
InitialState(v, init) ==
  IF init = Undefined /\ v # "orbit" THEN NoParams ELSE init

\* createAnimation threw: no handle was returned, no listener registered
Threw(v) == [Blank EXCEPT !.variant = v, !.phase = "threw"]

\* Mutant: the loop is started whatever initialState.running is
createAnimation_AlwaysPlays(v, init0, iw, ih, now, seed1, seed2) ==
  LET init == InitialState(v, init0)
      s0 == [Blank EXCEPT !.variant = v, !.phase = "live",
                          !.baseDensity = NumOr(init.density, DefaultDensity(v)),
                          !.speed = NumOr(init.speed, DefaultSpeed(v)),
                          !.zoom = NumOr(init.zoom, DefaultZoom),
                          !.zoomAuto = Truthy(init.zoomAuto),
                          !.last = now,
                          !.listening = TRUE]
      s1 == fitCanvas(s0, iw, ih, seed1)
      s2 == setParams(s1, init, seed2)
  IN IF init = Undefined THEN Threw(v) ELSE play(s2, now)

\* createAnimation({canvas, initialState, onStats}); init0 is Undefined or
\* a parameter object, whose running is Absent, 0 (false) or 1.  Reading a
\* property of undefined throws a TypeError
createAnimation(v, init0, iw, ih, now, seed1, seed2) ==
  LET init == InitialState(v, init0)
      s0 == [Blank EXCEPT !.variant = v, !.phase = "live",
                          !.baseDensity = NumOr(init.density, DefaultDensity(v)),
                          !.speed = NumOr(init.speed, DefaultSpeed(v)),
                          !.zoom = NumOr(init.zoom, DefaultZoom),
                          !.zoomAuto = Truthy(init.zoomAuto),
                          !.last = now,
                          !.listening = TRUE]
      s1 == fitCanvas(s0, iw, ih, seed1)
      s2 == setParams(s1, init, seed2)
  IN IF init = Undefined THEN Threw(v)
     ELSE IF init.running # 0 THEN play(s2, now) ELSE s2

\* ----------------------------------------------------------------- inputs
Flags == {0, 1}

\* setParams with one field, as the host's controls call it (main.js:181-201)
OneField(D, S, Z) ==
  {[NoParams EXCEPT !.speed = x] : x \in S}
  \cup {[NoParams EXCEPT !.density = x] : x \in D}
  \cup {[NoParams EXCEPT !.zoom = x] : x \in Z}
  \cup {[NoParams EXCEPT !.zoomAuto = x] : x \in Flags}

\* setParams with all four fields, as the host's loader calls it
\* (main.js:142-147); with running, what it passes as initialState
AllFields(D, S, Z, R) ==
  [speed : S, density : D, zoom : Z, zoomAuto : Flags, running : R]

\* Inputs of Spec, where the field is rebuilt for every kind of target:
\* on 800 x 600, density 0 gives 0 (below minPoints), 0.05 gives 24000
\* (inside the bounds) and 0.4 gives 192000 (above maxPoints)
Sizes == {<<0, 0>>, <<800, 600>>}
Densities == {0, 500, 4000}
Speeds == {100}
Zooms == {200}
Seeds == {1, 2}
FrameLags == {0}
ParamSets == OneField(Densities, Speeds, Zooms)
             \cup AllFields({500}, Speeds, Zooms, {Absent})
InitialStates ==
  AllFields({500}, Speeds, Zooms, Flags) \cup {NoParams, Undefined}

\* Inputs of SpecTime, where wall-clock time passes between the events:
\* 125 is 1/240 s; a frame's timestamp is the clock or 1/240 s before it.
\* The host's state is passed at creation; setParams toggles zoomAuto
TimeSizes == {<<0, 0>>, <<800, 600>>}
TickSteps == {125}
TimeLags == {0, 125}
TimeParamSets == OneField({}, {}, {})
TimeInitialStates == AllFields({500}, {100}, {100}, Flags)

\* Inputs of SpecRate, where an engine created running is driven at a
\* steady speed (0, 1 or the variant's default) by frames 1/240 s (125) or
\* 1/15 s (2000) apart
RateTicks == {125, 2000}
RateInitialStates ==
  AllFields({500}, {0, 100}, {100}, {1}) \cup {NoParams}

\* Inputs of SpecInvalid, where the host passes values that are not valid
\* parameters: NaN for speed, density or zoom, and a negative density
\* (-0.05), next to valid ones
InvalidDensities == {NaN, -500, 500}
InvalidSpeeds == {NaN, 100}
InvalidZooms == {NaN, 100}
InvalidParamSets == OneField(InvalidDensities, InvalidSpeeds, InvalidZooms)
InvalidInitialStates ==
  AllFields({NaN, 500}, InvalidSpeeds, InvalidZooms, {1})

\* Inputs of SpecFire, where the grid is followed cell by cell: a 0 x 0
\* window gives the smallest grid, 24 x 18, and 640 x 360 at density 0.3 a
\* grid of 25 x 18; the first seed of a step falls in the first or the last
\* column and the others in the opposite one, all with the smallest or
\* (nearly) the largest value, 60 or 65
FireSizes == {<<0, 0>>, <<640, 360>>}
FireDensities == {3000, 10000}
SeedColumns(f) == {0, f.gridW - 1}
SeedValues == {60000, 65000}
SeedDraws(f) ==
  {[k \in 1..seedCount(f) |->
      <<IF k = 1 THEN c ELSE f.gridW - 1 - c, v>>] :
     c \in SeedColumns(f), v \in SeedValues}

\* Inputs of SpecFit: the transformed points of a frame are any one to three
\* of five points, on a landscape or a portrait viewport, and zoomNow runs
\* from 0.47 (zoom 0.5 at the bottom of the pulse) to 4.24 (zoom 4 at its
\* top); 1.08 is the largest zoom below 1 / 0.92, 1.09 the first above
FitSizes == {<<800, 600>>, <<600, 800>>}
FitZooms == {47, 100, 106, 108, 109, 400, 424}
CurvePoints == {<<-6, -9>>, <<0, 0>>, <<4, 12>>, <<6, 3>>, <<-2, 7>>}
PointSets ==
  {ps \in SUBSET CurvePoints : Cardinality(ps) >= 1 /\ Cardinality(ps) <= 3}

\* Inputs of SpecLate, where the host goes on using the handle after
\* destroy()
LateInitialStates == AllFields({500}, {100}, {100}, Flags)
LateParamSets == OneField({4000}, {50}, {200})

\* ------------------------------------------------------------------- host
\* main.js.  An engine the host created is a record of the closure's
\* variables; instances holds every engine created so far, in order, and
\* currentAnimation is an index into it, 0 for null.  importing holds the
\* loadAnimation calls suspended at `await import(def.module)`.
animationDefs == <<"cnidarian", "swirl", "template", "fiya">>
AnimationIds == {animationDefs[i] : i \in DOMAIN animationDefs}

\* def.module: the engine a registry entry names
ModuleOf(id) ==
  CASE id = "cnidarian" -> "orbit"
    [] id = "swirl" -> "swirl"
    [] id = "template" -> "template"
    [] id = "fiya" -> "fire"

\* What a handler leaves behind for the next one: the per-handler records
\* of an engine start empty
Settled(s) ==
  [s EXCEPT !.calls = <<>>, !.regens = 0, !.draws = 0, !.steps = 0,
            !.bodyRan = FALSE]

\* The module's variables at their declarations: state from the controls,
\* running true, no engine, no load
HostBlank ==
  [state |-> [speed |-> 100, density |-> 500, zoom |-> 100, zoomAuto |-> 0,
              running |-> 1],
   select |-> animationDefs[1],
   animName |-> animationDefs[1],
   currentAnimation |-> 0,
   isLoadingAnimation |-> FALSE,
   importing |-> <<>>,
   instances |-> <<>>]

\* currentAnimation.pause?.(); currentAnimation.destroy?.();
\* currentAnimation = null
cleanUp(h) ==
  IF h.currentAnimation = 0 THEN h
  ELSE [h EXCEPT !.instances[h.currentAnimation] = Settled(destroy(pause(@))),
                 !.currentAnimation = 0]

\* Mutant: a selector change is served although a load is in flight
loadAnimation_NoGuard(h, id) ==
  IF id \notin AnimationIds THEN h
  ELSE [cleanUp([h EXCEPT !.isLoadingAnimation = TRUE])
          EXCEPT !.importing = Append(@, id)]

\* Mutant: a selector change that arrives during a load redirects the load
loadAnimation_Redirects(h, id) ==
  IF id \notin AnimationIds THEN h
  ELSE IF h.isLoadingAnimation
  THEN [h EXCEPT !.importing = [k \in DOMAIN @ |-> id]]
  ELSE [cleanUp([h EXCEPT !.isLoadingAnimation = TRUE])
          EXCEPT !.importing = Append(@, id)]

\* loadAnimation(id) up to its await
loadAnimation(h, id) ==
  IF id \notin AnimationIds \/ h.isLoadingAnimation THEN h
  ELSE [cleanUp([h EXCEPT !.isLoadingAnimation = TRUE])
          EXCEPT !.importing = Append(@, id)]

\* The k-th suspended loadAnimation without its entry in importing
Resumed(h, k) ==
  [h EXCEPT !.importing = SubSeq(@, 1, k - 1) \o SubSeq(@, k + 1, Len(@))]

\* loadAnimation from the await on, the import having resolved: factory,
\* setParams with the four fields, play if state.running, the label, and
\* the finally block
imported(h, k, iw, ih, now, seed) ==
  LET id == h.importing[k]
      made == createAnimation(ModuleOf(id), h.state, iw, ih, now, seed, seed)
      synced == setParams(made, [h.state EXCEPT !.running = Absent], seed)
      started == IF h.state.running = 1 THEN play(synced, now) ELSE synced
  IN [Resumed(h, k) EXCEPT !.instances = Append(@, Settled(started)),
                           !.currentAnimation = Len(h.instances) + 1,
                           !.animName = id,
                           !.isLoadingAnimation = FALSE]

\* the import having rejected: the catch and the finally block
importFailed(h, k) ==
  [Resumed(h, k) EXCEPT !.isLoadingAnimation = FALSE]

\* The engine currentAnimation refers to
Current(h) ==
  IF h.currentAnimation = 0 THEN Blank ELSE h.instances[h.currentAnimation]

\* currentAnimation?.m?.(): the method leaves the current engine, if there
\* is one, as e
OnCurrent(h, e) ==
  IF h.currentAnimation = 0 THEN h
  ELSE [h EXCEPT !.instances[h.currentAnimation] = Settled(e)]

\* The state after the module has run: `loadAnimation(animationDefs[0].id)`
\* is suspended at its import
HostStarted == loadAnimation(HostBlank, animationDefs[1])

\* The log at that point: the initial load serves animationDefs[0]
LogStarted ==
  [requests |-> 0, accepted |-> animationDefs[1], ignored |-> {},
   wasLoading |-> FALSE, before |-> HostBlank, ranOn |-> {}]

\* Inputs of SpecHost
\* the density slider moved to 0.4
HostParamSets == {[NoParams EXCEPT !.density = 4000]}

\* the entries the user picks
SelectorChoices == {"cnidarian", "template", "fiya"}
ImportOutcomes == {"resolved", "rejected"}

\* ---------------------------------------------------------------- actions
\* No module has been imported yet; the window has some size
Init ==
  /\ variant = Blank.variant /\ phase = Blank.phase
  /\ W = Blank.W /\ H = Blank.H
  /\ baseDensity = Blank.baseDensity /\ N = Blank.N /\ attrs = Blank.attrs
  /\ gridW = Blank.gridW /\ gridH = Blank.gridH /\ gridSize = Blank.gridSize
  /\ buffer = Blank.buffer /\ t = Blank.t /\ speed = Blank.speed
  /\ running = Blank.running /\ last = Blank.last /\ fpsEMA = Blank.fpsEMA
  /\ zoom = Blank.zoom /\ zoomAuto = Blank.zoomAuto
  /\ zoomPhase = Blank.zoomPhase /\ rafId = Blank.rafId
  /\ queue = Blank.queue /\ listening = Blank.listening
  /\ calls = Blank.calls /\ regens = Blank.regens /\ draws = Blank.draws
  /\ steps = Blank.steps /\ bodyRan = Blank.bodyRan
  /\ \E sz \in Sizes : innerW = sz[1] /\ innerH = sz[2]
  /\ clock = 0 /\ frames = 0
  /\ lastOp = "none" /\ arg = NoParams /\ pre = Blank
  /\ playedAt = 0 /\ pausedAt = 0 /\ sincePlay = 0
  /\ fire = NoGrid /\ fit = NoFit
  /\ host = HostStarted /\ hostLog = LogStarted

\* A handler ran: op with parameter object p, leaving the closure as r
Ran(op, p, r) ==
  /\ Become(r)
  /\ lastOp' = op /\ arg' = p /\ pre' = Self
  /\ playedAt' = IF ~running /\ r.running THEN clock ELSE playedAt
  /\ pausedAt' = IF running /\ ~r.running THEN clock ELSE pausedAt
  /\ sincePlay' = IF ~running /\ r.running THEN 0
                  ELSE IF r.bodyRan THEN sincePlay + 1 ELSE sincePlay
  /\ UNCHANGED <<fire, fit, host, hostLog>>

Live == phase = "live"

Create(v, init, seed1, seed2) ==
  /\ phase = "none"
  /\ Ran("create", init,
         createAnimation(v, init, innerW, innerH, clock, seed1, seed2))
  /\ UNCHANGED <<innerW, innerH, clock, frames>>

Play ==
  /\ Live
  /\ Ran("play", NoParams, play(Self, clock))
  /\ UNCHANGED <<innerW, innerH, clock, frames>>

Pause ==
  /\ Live
  /\ Ran("pause", NoParams, pause(Self))
  /\ UNCHANGED <<innerW, innerH, clock, frames>>

Reset ==
  /\ Live
  /\ Ran("reset", NoParams, reset(Self))
  /\ UNCHANGED <<innerW, innerH, clock, frames>>

SetParams(p, seed) ==
  /\ Live
  /\ Ran("setParams", p, setParams(Self, p, seed))
  /\ UNCHANGED <<innerW, innerH, clock, frames>>

Destroy ==
  /\ phase = "live"
  /\ Ran("destroy", NoParams, destroy(Self))
  /\ UNCHANGED <<innerW, innerH, clock, frames>>

\* The window is resized; the resize event reaches fitCanvas while it is
\* registered
Resize(sz, seed) ==
  /\ phase \in {"live", "destroyed"}
  /\ <<innerW, innerH>> # sz
  /\ innerW' = sz[1] /\ innerH' = sz[2]
  /\ Ran("resize", NoParams,
         IF listening THEN fitCanvas(Self, sz[1], sz[2], seed) ELSE Self)
  /\ UNCHANGED <<clock, frames>>

\* The browser runs a pending frame request; the timestamp it passes is the
\* start of the frame, which may lie before the last performance.now()
Frame(id, lag, max) ==
  /\ id \in queue
  /\ frames < max
  /\ clock - lag >= 0
  /\ Ran("frame", NoParams, loop(Self, clock - lag, id))
  /\ frames' = frames + 1
  /\ UNCHANGED <<innerW, innerH, clock>>

\* Wall-clock time passes
Tick(d, max) ==
  /\ Live
  /\ clock + d <= max
  /\ clock' = clock + d
  /\ UNCHANGED <<variant, phase, W, H, baseDensity, N, attrs, gridW, gridH,
                 gridSize, buffer, t, speed, running, last, fpsEMA, zoom,
                 zoomAuto, zoomPhase, rafId, queue, listening, innerW,
                 innerH, calls, regens, draws, steps, bodyRan, frames,
                 lastOp, arg, pre, playedAt, pausedAt, sincePlay, fire,
                 fit, host, hostLog>>

Next ==
  \/ \E v \in Variants, init \in InitialStates, s1, s2 \in Seeds :
       Create(v, init, s1, s2)
  \/ Play
  \/ Pause
  \/ Reset
  \/ \E p \in ParamSets :
       \E seed \in IF p.density = Absent THEN {1} ELSE Seeds :
         SetParams(p, seed)
  \/ Destroy
  \/ \E sz \in Sizes, seed \in Seeds : Resize(sz, seed)
  \/ \E id \in queue, lag \in FrameLags : Frame(id, lag, MaxFrames)

Spec == Init /\ [][Next]_vars

NextTime ==
  \/ \E v \in Variants, init \in TimeInitialStates : Create(v, init, 1, 1)
  \/ Play
  \/ Pause
  \/ Reset
  \/ \E p \in TimeParamSets : SetParams(p, 1)
  \/ Destroy
  \/ \E sz \in TimeSizes : Resize(sz, 1)
  \/ \E id \in queue, lag \in TimeLags : Frame(id, lag, MaxTimeFrames)
  \/ \E d \in TickSteps : Tick(d, MaxClock)

SpecTime == Init /\ [][NextTime]_vars

\* Every frame comes at least 0.0001 s after the one before it
NextRate ==
  \/ \E v \in Variants, init \in RateInitialStates : Create(v, init, 1, 1)
  \/ \E id \in queue : clock - last >= Epsilon /\ Frame(id, 0, MaxRateFrames)
  \/ \E d \in RateTicks : Tick(d, MaxRateClock)

SpecRate == Init /\ [][NextRate]_vars

NextInvalid ==
  \/ \E v \in Variants, init \in InvalidInitialStates : Create(v, init, 1, 1)
  \/ \E p \in InvalidParamSets : SetParams(p, 2)
  \/ \E sz \in Sizes : Resize(sz, 1)
  \/ \E id \in queue : Frame(id, 0, MaxInvalidFrames)

SpecInvalid == Init /\ [][NextInvalid]_vars

\* The engine's other variables stay as they are
engineVars ==
  <<variant, phase, W, H, baseDensity, N, attrs, gridW, gridH, gridSize,
    buffer, t, speed, running, last, fpsEMA, zoom, zoomAuto, zoomPhase,
    rafId, queue, listening, innerW, innerH, clock, calls, regens, draws,
    steps, bodyRan, frames, lastOp, arg, pre, playedAt, pausedAt, sincePlay>>

\* The variables of the single engine of the other specifications, which
\* the host's events leave alone
closureVars ==
  <<variant, phase, W, H, baseDensity, N, attrs, gridW, gridH, gridSize,
    buffer, t, speed, running, last, fpsEMA, zoom, zoomAuto, zoomPhase,
    rafId, queue, listening, clock, calls, regens, draws, steps, bodyRan,
    arg, pre, playedAt, pausedAt, sincePlay, fire, fit>>

\* The largest value of a buffer (0 for an empty one)
Brightest(buf) ==
  IF buf = <<>> THEN 0
  ELSE CHOOSE v \in {buf[j] : j \in DOMAIN buf} :
         \A j \in DOMAIN buf : buf[j] <= v

\* fitCanvas or setParams({density}) of fireField: the grid is rebuilt
FireRebuild(d, sz) ==
  /\ fire' = [rebuildCells([fire EXCEPT !.baseDensity = d,
                                        !.W = sz[1], !.H = sz[2]])
                EXCEPT !.op = "rebuild", !.seeded = <<>>, !.touched = {},
                       !.written = {},
                       !.replaced =
                         [W |-> fire.W, H |-> fire.H,
                          baseDensity |-> fire.baseDensity,
                          gridW |-> fire.gridW, gridH |-> fire.gridH,
                          brightest |-> Brightest(fire.buffer)]]
  /\ UNCHANGED <<engineVars, fit, host, hostLog>>

\* One frame of fireField at a speed below 0.375: stepFire(1); frames come
\* after createAnimation has built the grid
FireStep(seeds) ==
  /\ fire.op # "none"
  /\ fire.count < MaxFireSteps
  /\ fire' = [stepCells(fire, <<seeds>>)
                EXCEPT !.op = "step", !.count = @ + 1,
                       !.replaced = NoGridBefore]
  /\ UNCHANGED <<engineVars, fit, host, hostLog>>

\* reset of fireField: buffer.fill(0)
FireReset ==
  /\ fire.op = "step"
  /\ fire' = [fire EXCEPT !.buffer = [j \in DOMAIN @ |-> 0],
                          !.op = "reset", !.seeded = <<>>, !.touched = {},
                          !.written = {}, !.replaced = NoGridBefore]
  /\ UNCHANGED <<engineVars, fit, host, hostLog>>

NextFire ==
  \/ \E d \in FireDensities, sz \in FireSizes : FireRebuild(d, sz)
  \/ \E seeds \in SeedDraws(fire) : FireStep(seeds)
  \/ FireReset

SpecFire == Init /\ [][NextFire]_vars

\* One frame of orbitField: the fit of its transformed points
OrbitFit(ps, sz, z) ==
  /\ fit' = fitPoints(ps, sz[1], sz[2], z)
  /\ UNCHANGED <<engineVars, fire, host, hostLog>>

NextFit ==
  \E ps \in PointSets, sz \in FitSizes, z \in FitZooms : OrbitFit(ps, sz, z)

SpecFit == Init /\ [][NextFit]_vars

\* A method of the handle is called after destroy()
Late(op, p, r) ==
  /\ phase = "destroyed"
  /\ Ran(op, p, r)
  /\ UNCHANGED <<innerW, innerH, clock, frames>>

NextLate ==
  \/ \E v \in Variants, init \in LateInitialStates : Create(v, init, 1, 1)
  \/ Destroy
  \/ Late("play", NoParams, play(Self, clock))
  \/ Late("pause", NoParams, pause(Self))
  \/ Late("reset", NoParams, reset(Self))
  \/ \E p \in LateParamSets : Late("setParams", p, setParams(Self, p, 2))
  \/ \E id \in queue : Frame(id, 0, MaxLateFrames)

SpecLate == Init /\ [][NextLate]_vars

\* An event of the page ran: op, leaving the host as h
HostRan(op, h, log) ==
  /\ host' = h
  /\ hostLog' = log
  /\ lastOp' = op
  /\ UNCHANGED closureVars

\* The user picks another entry of the selector: the change listener calls
\* loadAnimation(animSelect.value)
SelectChange(id) ==
  /\ hostLog.requests < MaxRequests
  /\ id # host.select
  /\ HostRan("select", loadAnimation([host EXCEPT !.select = id], id),
             [requests |-> hostLog.requests + 1,
              accepted |-> IF host.isLoadingAnimation THEN hostLog.accepted
                           ELSE id,
              ignored |-> IF host.isLoadingAnimation
                          THEN hostLog.ignored \cup {id} ELSE {},
              wasLoading |-> host.isLoadingAnimation,
              before |-> host,
              ranOn |-> {}])
  /\ UNCHANGED <<innerW, innerH, frames>>

\* An import settles and the suspended loadAnimation runs to its end
ImportSettles(k, outcome, seed) ==
  /\ k \in DOMAIN host.importing
  /\ HostRan(outcome,
             IF outcome = "resolved"
             THEN imported(host, k, innerW, innerH, clock, seed)
             ELSE importFailed(host, k),
             [hostLog EXCEPT !.wasLoading = FALSE, !.before = HostBlank,
                             !.ranOn = {}])
  /\ UNCHANGED <<innerW, innerH, frames>>

\* The state field a control sets
Moved(st, p) ==
  [k \in DOMAIN st |-> IF k # "running" /\ p[k] # Absent THEN p[k] ELSE st[k]]

\* An input event of the speed, density or zoom slider or a change of the
\* auto-zoom box: state is updated and the one field passed on
Control(p) ==
  /\ Moved(host.state, p) # host.state
  /\ HostRan("control",
             OnCurrent([host EXCEPT !.state = Moved(@, p)],
                       setParams(Current(host), p, 1)),
             [hostLog EXCEPT !.wasLoading = FALSE, !.before = HostBlank,
                             !.ranOn = {}])
  /\ UNCHANGED <<innerW, innerH, frames>>

\* A click on Pause / Resume
Toggle ==
  /\ HostRan("toggle",
             IF host.state.running = 1
             THEN OnCurrent([host EXCEPT !.state.running = 0],
                            pause(Current(host)))
             ELSE OnCurrent([host EXCEPT !.state.running = 1],
                            play(Current(host), clock)),
             [hostLog EXCEPT !.wasLoading = FALSE, !.before = HostBlank,
                             !.ranOn = {}])
  /\ UNCHANGED <<innerW, innerH, frames>>

\* A click on Reset
ResetClick ==
  /\ host.currentAnimation # 0
  /\ HostRan("resetClick", OnCurrent(host, reset(Current(host))),
             [hostLog EXCEPT !.wasLoading = FALSE, !.before = HostBlank,
                             !.ranOn = {}])
  /\ UNCHANGED <<innerW, innerH, frames>>

\* The browser runs a pending frame request of one of the engines
HostFrame(i, id) ==
  /\ i \in DOMAIN host.instances
  /\ id \in host.instances[i].queue
  /\ frames < MaxHostFrames
  /\ HostRan("hostFrame",
             [host EXCEPT !.instances[i] = Settled(loop(@, clock, id))],
             [hostLog EXCEPT !.wasLoading = FALSE, !.before = HostBlank,
                             !.ranOn = {i}])
  /\ frames' = frames + 1
  /\ UNCHANGED <<innerW, innerH>>

\* The window is resized: every registered fitCanvas runs
HostResize(sz, seed) ==
  /\ <<innerW, innerH>> # sz
  /\ innerW' = sz[1] /\ innerH' = sz[2]
  /\ HostRan("hostResize",
             [host EXCEPT !.instances =
                [i \in DOMAIN @ |->
                   IF @[i].listening
                   THEN Settled(fitCanvas(@[i], sz[1], sz[2], seed))
                   ELSE @[i]]],
             [hostLog EXCEPT !.wasLoading = FALSE, !.before = HostBlank,
                             !.ranOn = {i \in DOMAIN host.instances :
                                          host.instances[i].listening}])
  /\ UNCHANGED frames

NextHost ==
  \/ \E id \in SelectorChoices : SelectChange(id)
  \/ \E k \in DOMAIN host.importing, outcome \in ImportOutcomes :
       ImportSettles(k, outcome, 1)
  \/ \E p \in HostParamSets : Control(p)
  \/ Toggle
  \/ ResetClick
  \/ \E i \in DOMAIN host.instances :
       \E id \in host.instances[i].queue : HostFrame(i, id)
  \/ \E sz \in Sizes : HostResize(sz, 1)

SpecHost == Init /\ [][NextHost]_vars

\* ----------------------------------------------------------------- claims
Created == phase \in {"live", "destroyed"}
IsPointField == variant \in PointVariants

\* The last handler ran a rebuild outside createAnimation
RebuiltBySetParams == lastOp = "setParams" /\ arg.density # Absent
RebuiltByResize == lastOp = "resize" /\ pre.listening

\* floor(density * W * H) as the state has it
RawCount == (baseDensity * W * H) \div DensityUnit

\* C1: in every point-field variant, after create and any setParams
\* ({density}) with a numeric density >= 0 and any resize, N lies in
\* [minPoints, maxPoints], and N is floor(density * W * H) whenever that
\* value lies in the bounds.
C1_CountWithinBounds ==
  (Created /\ IsPointField /\ IsNum(baseDensity) /\ baseDensity >= 0) =>
    /\ minPoints(variant) <= N
    /\ N <= maxPoints(variant)
    /\ (minPoints(variant) <= RawCount /\ RawCount <= maxPoints(variant))
         => N = RawCount

\* a density change brought the count from a clamped value to the raw one
C1_Witness ==
  /\ IsPointField /\ RebuiltBySetParams
  /\ pre.N = maxPoints(variant)
  /\ N = RawCount /\ N = 24000

\* C2: a rebuild (setParams({density}) or resize) whose clamped target
\* equals the current count leaves the per-particle arrays as they were,
\* also when density or viewport changed.
C2_RebuildIdempotent ==
  (IsPointField /\ (RebuiltBySetParams \/ RebuiltByResize)
     /\ StrictEq(Target(variant, baseDensity, W, H), pre.N)) =>
    /\ attrs = pre.attrs
    /\ N = pre.N
    /\ regens = 0

\* the density changed, the clamped target did not
C2_Witness ==
  /\ IsPointField /\ RebuiltBySetParams
  /\ arg.density # pre.baseDensity
  /\ Target(variant, baseDensity, W, H) = pre.N
  /\ pre.attrs.seed = 2 /\ attrs = pre.attrs

\* The count a variant reports as points, and the one a rebuild computes
Count == IF variant = "fire" THEN gridSize ELSE N
PreCount == IF variant = "fire" THEN pre.gridSize ELSE pre.N
CountFor(v, d, w, h) ==
  IF v = "fire" THEN Mul(GridW(d, w), GridH(d, h)) ELSE Target(v, d, w, h)

\* onStats calls of one kind made by the last handler
CallsOf(k) == SelectSeq(calls, LAMBDA c : c[1] = k)

OnlyDensity ==
  /\ arg.density # Absent
  /\ arg.speed = Absent /\ arg.zoom = Absent /\ arg.zoomAuto = Absent

\* C8: setParams({density: d}) while running, with d changing the clamped
\* target count, regenerates the field once, calls onStats({points}) once
\* with the new clamped count, and leaves logical time, zoom phase, running
\* and the pending frame as they were.
C8_DensityChangeWhileRunning ==
  (lastOp = "setParams" /\ OnlyDensity /\ pre.running
     /\ ~StrictEq(CountFor(variant, arg.density, pre.W, pre.H), PreCount)) =>
    /\ regens = 1
    /\ calls = << <<"points", CountFor(variant, arg.density, pre.W, pre.H)>> >>
    /\ Count = CountFor(variant, arg.density, pre.W, pre.H)
    /\ t = pre.t /\ zoomPhase = pre.zoomPhase
    /\ running /\ rafId = pre.rafId /\ queue = pre.queue

\* the density changed after a frame had advanced the clock and the phase
C8_Witness ==
  /\ lastOp = "setParams" /\ OnlyDensity /\ pre.running
  /\ Count # PreCount /\ Count = 24000
  /\ pre.t > 0 /\ pre.zoomPhase > 0 /\ regens = 1

\* rebuild invocations made by the last handler
Rebuilds ==
  CASE lastOp = "create" -> IF arg.density # Absent THEN 2 ELSE 1
    [] RebuiltBySetParams \/ RebuiltByResize -> 1
    [] OTHER -> 0

\* C9: in every variant each rebuild invocation (create, setParams
\* ({density}), resize) reports the current count through onStats({points}),
\* whether the field was regenerated or the rebuild was a no-op.
C9_EveryRebuildReports ==
  Created =>
    /\ Len(CallsOf("points")) = Rebuilds
    /\ Rebuilds > 0 => CallsOf("points")[Rebuilds][2] = Count

\* C10 as stated: every field present in the argument of setParams is echoed
\* through onStats with its newly applied value before setParams returns.
C10_EveryFieldEchoed ==
  lastOp = "setParams" =>
    /\ arg.speed # Absent => CallsOf("speed") = << <<"speed", speed>> >>
    /\ arg.density # Absent => CallsOf("points") = << <<"points", Count>> >>
    /\ arg.zoom # Absent => CallsOf("zoom") = << <<"zoom", zoom>> >>
    /\ arg.zoomAuto # Absent =>
         CallsOf("zoomAuto") = << <<"zoomAuto", arg.zoomAuto>> >>

\* C10 amended: a speed or a zoom present in the argument of setParams is
\* stored and echoed once through onStats with the new value before
\* setParams returns; zoomAuto is applied without any onStats call.
C10_SpeedAndZoomEchoed ==
  lastOp = "setParams" =>
    /\ arg.speed # Absent =>
         speed = arg.speed /\ CallsOf("speed") = << <<"speed", arg.speed>> >>
    /\ arg.zoom # Absent =>
         zoom = arg.zoom /\ CallsOf("zoom") = << <<"zoom", arg.zoom>> >>
    /\ arg.speed = Absent => CallsOf("speed") = <<>>
    /\ arg.zoom = Absent => CallsOf("zoom") = <<>>
    /\ arg.zoomAuto # Absent => zoomAuto = Truthy(arg.zoomAuto)
    /\ Len(calls) = Len(CallsOf("speed")) + Len(CallsOf("points"))
                      + Len(CallsOf("zoom"))

\* all four fields were passed; speed and zoom changed and were echoed
C10_Witness ==
  /\ lastOp = "setParams"
  /\ arg.speed # Absent /\ arg.zoom # Absent /\ arg.zoomAuto # Absent
  /\ pre.speed # speed /\ pre.zoom # zoom
  /\ CallsOf("speed") = << <<"speed", speed>> >>
  /\ CallsOf("zoom") = << <<"zoom", zoom>> >>

\* C3: after pause() returns no frame body runs (no time advance, no draw,
\* no per-frame onStats) until the next play(): pause leaves no request
\* pending, none is pending while the engine is paused, and a frame
\* callback does something only if the engine was running when it came.
C3_NoFrameAfterPause ==
  /\ lastOp = "pause" => ~running /\ rafId = 0 /\ queue = {}
  /\ (Created /\ ~running) => queue = {}
  /\ (lastOp = "frame" /\ (bodyRan \/ draws > 0 \/ calls # <<>>))
       => pre.running

\* pause cancelled the request left pending by a frame
C3_Witness ==
  /\ lastOp = "pause" /\ pre.running /\ pre.queue # {}
  /\ sincePlay >= 1
  /\ ~running /\ queue = {}

\* C4: play() leaves logical time where it was, and the first frame after
\* play() advances it by speed * speedScale times the time since play()
\* (floored at 0.0001 s), never by any part of the gap before play().
C4_PauseResumeExact ==
  /\ lastOp = "play" => t = pre.t /\ zoomPhase = pre.zoomPhase
  /\ (lastOp = "frame" /\ bodyRan /\ sincePlay = 1) =>
       LET dt == MathMax(Epsilon, last - playedAt)
       IN /\ variant # "fire" =>
               t = pre.t + dt * speed * speedScale(variant)
          /\ zoomPhase = pre.zoomPhase + (IF zoomAuto THEN dt ELSE 0)

\* the engine had run, stayed paused for 1/240 s or more, and its first
\* frame after play() came 1/240 s after play()
C4_Witness ==
  /\ lastOp = "frame" /\ bodyRan /\ sincePlay = 1
  /\ variant # "fire" /\ pre.t > 0
  /\ playedAt > pausedAt /\ last = playedAt + 125
  /\ t = pre.t + 125 * speed * speedScale(variant)

\* C5: while running is false no event advances logical time or the zoom
\* phase; they only stay or are set to zero.
C5_FrozenWhilePaused ==
  (Created /\ ~pre.running) =>
    /\ t \in {pre.t, 0} /\ t <= pre.t
    /\ zoomPhase \in {pre.zoomPhase, 0} /\ zoomPhase <= pre.zoomPhase

\* a resize reached an engine paused for some time with both advanced
C5_Witness ==
  /\ lastOp = "resize" /\ ~pre.running /\ pre.listening
  /\ clock > pausedAt
  /\ pre.t > 0 /\ pre.zoomPhase > 0
  /\ t = pre.t /\ zoomPhase = pre.zoomPhase

\* C7: while running with speed > 0 a frame never moves logical time
\* backwards, whatever its timestamp: dt is at least 0.0001 s.
C7_MonotoneWhileRunning ==
  (lastOp = "frame" /\ pre.running /\ variant # "fire"
     /\ IsNum(speed) /\ speed > 0) =>
    /\ t >= pre.t
    /\ t - pre.t >= Epsilon * speed * speedScale(variant)
    /\ zoomPhase >= pre.zoomPhase

\* a frame came with a timestamp before that of the previous one
C7_Witness ==
  /\ lastOp = "frame" /\ bodyRan /\ variant # "fire"
  /\ sincePlay >= 2 /\ last < pre.last
  /\ speed > 0 /\ t > pre.t

\* C6: at a fixed speed the advance of logical time over an interval is
\* speed * speedScale * interval however the interval is cut into frames
\* (each at least 0.0001 s): sixteen frames of 1/240 s advance it as much
\* as one frame of 1/15 s.
C6_FrameRateIndependent ==
  Created =>
    /\ variant # "fire" => t = last * speed * speedScale(variant)
    /\ zoomAuto => zoomPhase = last

\* sixteen frames of 1/240 s each have covered 1/15 s
C6_Witness ==
  /\ frames = 16 /\ last = 2000 /\ variant # "fire"
  /\ t = 2000 * speed * speedScale(variant)

\* C11: a setParams call without density never rebuilds: count, per-particle
\* arrays, grid dimensions, intensity buffer, logical time, running and the
\* pending frame are as before the call, and no count is reported.
C11_NoRebuildWithoutDensity ==
  (lastOp = "setParams" /\ arg.density = Absent) =>
    /\ regens = 0 /\ CallsOf("points") = <<>>
    /\ N = pre.N /\ attrs = pre.attrs
    /\ gridW = pre.gridW /\ gridH = pre.gridH /\ gridSize = pre.gridSize
    /\ buffer = pre.buffer
    /\ W = pre.W /\ H = pre.H /\ baseDensity = pre.baseDensity
    /\ t = pre.t /\ running = pre.running
    /\ rafId = pre.rafId /\ queue = pre.queue

\* a new zoom reached a running engine whose field a frame had touched
C11_Witness ==
  /\ lastOp = "setParams" /\ arg.density = Absent /\ arg.zoom # Absent
  /\ zoom # pre.zoom /\ pre.running /\ queue # {}
  /\ IF variant = "fire" THEN buffer.lit /\ gridSize > 0
                         ELSE t > 0 /\ attrs.seed = 2

\* C12: in every variant reset() sets logical time and the auto-zoom phase
\* to 0, and in the fire variant every cell of the intensity grid to 0.
C12_ResetZeroes ==
  lastOp = "reset" =>
    /\ t = 0 /\ zoomPhase = 0
    /\ variant = "fire" => ~buffer.lit

\* C13: reset(), running or paused, leaves the running flag, the pending
\* frame request, the count and the per-particle arrays, the stored speed,
\* density, zoom and zoomAuto, the fps estimate and the last-frame
\* timestamp as they were, and makes no onStats call.
C13_ResetKeepsTheRest ==
  lastOp = "reset" =>
    /\ running = pre.running /\ rafId = pre.rafId /\ queue = pre.queue
    /\ N = pre.N /\ attrs = pre.attrs
    /\ gridW = pre.gridW /\ gridH = pre.gridH /\ gridSize = pre.gridSize
    /\ buffer.len = pre.buffer.len
    /\ W = pre.W /\ H = pre.H
    /\ speed = pre.speed /\ baseDensity = pre.baseDensity
    /\ zoom = pre.zoom /\ zoomAuto = pre.zoomAuto
    /\ fpsEMA = pre.fpsEMA /\ last = pre.last
    /\ listening = pre.listening
    /\ regens = 0 /\ calls = <<>>

\* reset reached a running engine some time after a frame, with a request
\* pending
C13_Witness ==
  /\ lastOp = "reset" /\ pre.running /\ running
  /\ pre.t > 0 /\ t = 0 /\ queue # {} /\ rafId \in queue
  /\ fpsEMA # InitialFps /\ zoomAuto
  /\ last > 0 /\ clock > last

\* C14: play() on a running engine and pause() on a paused engine change
\* nothing: no second frame request, no new last-frame timestamp, no
\* onStats call; so play();play() ends as play() and pause();pause() as
\* pause().
C14_PlayPauseIdempotent ==
  ((lastOp = "play" /\ pre.running) \/ (lastOp = "pause" /\ ~pre.running)) =>
    /\ Self = pre
    /\ calls = <<>> /\ regens = 0 /\ draws = 0
    /\ Cardinality(queue) = IF running THEN 1 ELSE 0

\* play() was called 1/240 s or more after the running engine's last frame
C14_Witness ==
  /\ lastOp = "play" /\ pre.running /\ running
  /\ clock > last /\ last = pre.last
  /\ queue = {rafId} /\ sincePlay >= 1

C18_AbsentFieldsDefault ==
  lastOp = "create" =>
    /\ phase = "live"
    /\ arg.speed = Absent => speed = DefaultSpeed(variant)
    /\ arg.density = Absent => baseDensity = DefaultDensity(variant)
    /\ arg.zoom = Absent => zoom = DefaultZoom
    /\ arg.zoomAuto = Absent => ~zoomAuto
    /\ arg.running = Absent => running /\ queue = {rafId}

\* C16: after destroy() the engine is paused with no frame request pending
\* and fitCanvas is no longer the window's resize listener: a later resize
\* changes none of the engine's variables and makes no onStats call, and no
\* frame body runs.
C16_DestroyedIsInert ==
  /\ phase = "destroyed" =>
       ~running /\ rafId = 0 /\ queue = {} /\ ~listening
  /\ (lastOp = "resize" /\ pre.phase = "destroyed") =>
       Self = pre /\ calls = <<>> /\ regens = 0
  /\ (lastOp = "frame" /\ pre.phase = "destroyed") => ~bodyRan

\* the window was resized after destroy() and the engine kept its viewport
C16_Witness ==
  /\ lastOp = "resize" /\ pre.phase = "destroyed"
  /\ innerW # W /\ innerH # H
  /\ W = 800 /\ H = 600 /\ Count > 0

\* C17: a resize event between frames, running or paused, before destroy,
\* sets the viewport to the window's size and runs the rebuild: the count is
\* clamped anew for the new area and reported through onStats({points}),
\* while logical time, zoom phase, running, the pending frame and the stored
\* speed, density and zoom are unchanged.
C17_ResizeRebuildsAndReports ==
  (lastOp = "resize" /\ pre.listening) =>
    /\ W = innerW /\ H = innerH
    /\ Count = CountFor(variant, baseDensity, W, H)
    /\ calls = << <<"points", Count>> >>
    /\ t = pre.t /\ zoomPhase = pre.zoomPhase
    /\ running = pre.running /\ rafId = pre.rafId /\ queue = pre.queue
    /\ speed = pre.speed /\ baseDensity = pre.baseDensity
    /\ zoom = pre.zoom /\ zoomAuto = pre.zoomAuto
    /\ last = pre.last /\ fpsEMA = pre.fpsEMA

\* C19: a NaN speed, density or zoom given in initialState or to setParams
\* is replaced by a default: after create or setParams the stored speed,
\* density and zoom are numbers other than NaN, and no frame makes logical
\* time or the zoom NaN.
C19_InvalidValuesDefaulted ==
  Created =>
    /\ IsNum(speed) /\ IsNum(baseDensity) /\ IsNum(zoom)
    /\ IsNum(t)

\* C20: setParams({density: d}) with d negative or NaN clamps to the lower
\* bound in the point fields: the count is minPoints, the per-particle
\* arrays have minPoints entries, and minPoints <= N <= maxPoints.
C20_InvalidDensityClampsToMin ==
  (lastOp = "setParams" /\ IsPointField /\ arg.density # Absent
     /\ (arg.density = NaN \/ arg.density < 0)) =>
    /\ N = minPoints(variant)
    /\ attrs.len = minPoints(variant)
    /\ minPoints(variant) <= N /\ N <= maxPoints(variant)

\* C21: while the viewport has width 0 or height 0 the point field holds
\* minPoints particles, and a frame run in that state issues no draw call on
\* the canvas, not even the background fill.
C21_NoDrawOnDegenerateViewport ==
  (lastOp = "frame" /\ bodyRan /\ (W = 0 \/ H = 0)) =>
    /\ IsPointField /\ IsNum(baseDensity) => N = minPoints(variant)
    /\ draws = 0

\* C22: in fireField every value of the intensity buffer, grid cells and
\* padding alike, lies in [0, 70] after any number of steps with any seeds
\* in [60, 65] and after any reset, density change or resize.
C22_IntensityInRange ==
  \A j \in DOMAIN fire.buffer :
    0 <= fire.buffer[j] /\ fire.buffer[j] <= 70000

\* a cell next to two seeds has accumulated light over two steps
C22_Witness ==
  /\ fire.op = "step" /\ fire.count >= 2
  /\ \E j \in DOMAIN fire.buffer : fire.buffer[j] > 30000

\* C23 as stated: over a diffuse + decay pass (the seeding aside) the
\* intensity of every single cell does not increase and is never negative.
C23_EveryCellDecays ==
  fire.op = "step" =>
    \A j \in DOMAIN fire.buffer :
      0 <= fire.buffer[j] /\ fire.buffer[j] <= fire.seeded[j]

\* C23 amended: over a diffuse + decay pass no cell becomes negative and
\* every cell ends at no more than 0.985 times the largest of the four
\* cells it averages, so the brightest value of the grid does not increase;
\* a single cell may rise.
C23_BrightestDecays ==
  fire.op = "step" =>
    /\ \A j \in DOMAIN fire.buffer : 0 <= fire.buffer[j]
    /\ \A i \in 0..(fire.gridSize - 1) :
         \E k \in {i, i + 1, i + fire.gridW, i + fire.gridW + 1} :
           At(fire.buffer, i) <= Fade(At(fire.seeded, k))
    /\ Brightest(fire.buffer) <= Brightest(fire.seeded)

\* a dark cell beside a seed rose while the brightest value fell
C23_Witness ==
  /\ fire.op = "step"
  /\ \E j \in DOMAIN fire.buffer :
       fire.seeded[j] = 0 /\ fire.buffer[j] > 0
  /\ Brightest(fire.buffer) < Brightest(fire.seeded)

\* The cell in column x of row y of a buffer, 0 outside the grid
Cell(buf, x, y) ==
  IF x < fire.gridW /\ y < fire.gridH
  THEN At(buf, x + y * fire.gridW) ELSE 0

\* C24: the in-place diffusion equals a simultaneous update in which each
\* cell becomes 0.25 times the sum of the pre-diffusion values of itself,
\* its right neighbour, the cell below and the cell below-right in the 2D
\* grid (then faded), depending on no other cell.
C24_DiffusionIsSimultaneous2D ==
  fire.op = "step" =>
    \A x \in 0..(fire.gridW - 1), y \in 0..(fire.gridH - 1) :
      Cell(fire.buffer, x, y) =
        Fade(Quarter(Cell(fire.seeded, x, y) + Cell(fire.seeded, x + 1, y)
                     + Cell(fire.seeded, x, y + 1)
                     + Cell(fire.seeded, x + 1, y + 1)))

\* C25: every index a step reads or writes lies inside the buffer of length
\* gridSize + gridW + 1, the step writes no padding cell (index >=
\* gridSize), and the padding cells are 0 in every state.
C25_IndicesInsideBuffer ==
  /\ fire.op # "none" =>
       Len(fire.buffer) = fire.gridSize + fire.gridW + 1
  /\ \A i \in fire.touched : 0 <= i /\ i < Len(fire.buffer)
  /\ \A i \in fire.written : 0 <= i /\ i < fire.gridSize
  /\ \A j \in DOMAIN fire.buffer :
       j > fire.gridSize => fire.buffer[j] = 0

\* a step on the 25 x 18 grid read the last padding cell and seeded the
\* last cell of the grid
C25_Witness ==
  /\ fire.op = "step" /\ fire.gridW = 25 /\ fire.gridH = 18
  /\ Len(fire.buffer) - 1 \in fire.touched
  /\ fire.gridSize - 1 \in fire.written
  /\ At(fire.seeded, fire.gridSize - 1) = 65000

\* A screen coordinate lies in [0, size]
Inside(c, size) == 0 <= c.num /\ c.num <= size * c.den

\* C26 as stated: in every frame of orbitField, for every zoom from 0.5 to 4
\* with auto-zoom on or off, every transformed point lands inside the
\* viewport, 0 <= x <= W and 0 <= y <= H, centred on its centre.
C26_FitKeepsPointsInside ==
  fit.op = "fit" =>
    \A q \in fit.points :
      Inside(fit.at[q].x, fit.W) /\ Inside(fit.at[q].y, fit.H)

\* C26 amended: the box of the points is centred on the viewport's centre
\* in every frame; every point lands inside the viewport when zoomNow *
\* 0.92 <= 1; when zoomNow * 0.92 > 1 and the box has positive width and
\* height, some point lands outside and is not drawn.
C26_FitInsideUpToUnitZoom ==
  fit.op = "fit" =>
    LET e == fit.extent
        lo == CHOOSE q \in fit.points : q[1] = e.minX
        hi == CHOOSE q \in fit.points : q[1] = e.maxX
        bo == CHOOSE q \in fit.points : q[2] = e.minY
        to == CHOOSE q \in fit.points : q[2] = e.maxY
    IN /\ fit.at[lo].x.num + fit.at[hi].x.num = fit.W * fit.at[lo].x.den
       /\ fit.at[bo].y.num + fit.at[to].y.num = fit.H * fit.at[bo].y.den
       /\ 92 * fit.zoomNow <= 10000 =>
            \A q \in fit.points :
              Inside(fit.at[q].x, fit.W) /\ Inside(fit.at[q].y, fit.H)
       /\ (92 * fit.zoomNow > 10000 /\ e.maxX > e.minX /\ e.maxY > e.minY) =>
            /\ fit.drawn # fit.points
            /\ \E q \in fit.points :
                 ~(Inside(fit.at[q].x, fit.W) /\ Inside(fit.at[q].y, fit.H))

\* at zoom 1.06, the top of the pulse at zoom 1, three points all fit
C26_Witness ==
  /\ fit.op = "fit" /\ fit.zoomNow = 106
  /\ Cardinality(fit.points) = 3
  /\ \A q \in fit.points :
       Inside(fit.at[q].x, fit.W) /\ Inside(fit.at[q].y, fit.H)

\* C27: the template created with density 0.005 and speed 0.5 on 800 x 600
\* holds 6000 particles (2400 raised to minPoints), and after exactly one
\* frame with dt = 1/60 s from logical time 0 its logical time is 0.5.
C27_TemplateEndToEnd ==
  (variant = "template" /\ Created /\ baseDensity = 50 /\ speed = 50
     /\ W = 800 /\ H = 600) =>
    /\ RawCount = 2400 /\ N = 6000 /\ attrs.len = 6000
    /\ lastOp = "create" =>
         CallsOf("points") = << <<"points", 6000>> >> /\ t = 0
    /\ (lastOp = "frame" /\ frames = 1 /\ pre.t = 0
          /\ (last - pre.last) * 60 = TicksPerSec) =>
         2 * t = TicksPerSec * 100

\* the first frame came 1/60 s after the template was created with its
\* defaults
C27_Witness ==
  /\ variant = "template" /\ lastOp = "frame" /\ frames = 1
  /\ baseDensity = 50 /\ speed = 50 /\ W = 800 /\ H = 600
  /\ pre.t = 0 /\ pre.last = 0 /\ last = 500
  /\ N = 6000 /\ t = 1500000

\* C28: after any sequence of create, play, pause, reset, setParams,
\* destroy, resize and frame events: if running is true exactly one frame
\* request is pending, the one rafId names; if running is false none is
\* pending and rafId is null; so two loops never run for one handle.
C28_OneLoopPerHandle ==
  Created =>
    /\ running => rafId # 0 /\ queue = {rafId}
    /\ ~running => rafId = 0 /\ queue = {}
    /\ Cardinality(queue) <= 1

\* an engine paused after a frame was started again
C28_Witness ==
  /\ lastOp = "play" /\ ~pre.running /\ pre.rafId = 0 /\ pre.queue = {}
  /\ (pre.t > 0 \/ pre.buffer.lit)
  /\ running /\ queue = {rafId}

\* C29: fireField runs max(1, round(speed * 4)) simulation steps in every
\* frame, whatever the frame's dt: one step even at speed 0, so the steps
\* run over an interval are that number times the frames rendered in it.
C29_StepsPerFrameFromSpeed ==
  (lastOp = "frame" /\ bodyRan /\ variant = "fire") =>
    /\ steps = MathMax(1, Round4(speed))
    /\ steps >= 1
    /\ speed = 0 => steps = 1
    /\ speed = 100 => steps = 4

\* at speed 0 a frame 1/16 s after a frame that came after 1/240 s ran one
\* step, as that one did
C29_Witness ==
  /\ lastOp = "frame" /\ bodyRan /\ variant = "fire" /\ speed = 0
  /\ frames = 2 /\ pre.last = 125 /\ last = 2000
  /\ steps = 1 /\ buffer.lit

\* C30: a method of the handle called after destroy() does nothing: play()
\* does not set running or request a frame, setParams() neither rebuilds
\* the field nor calls onStats, and no variable of the engine changes.
C30_NoOpAfterDestroy ==
  (lastOp \in {"play", "pause", "reset", "setParams"}
     /\ pre.phase = "destroyed") =>
    /\ Self = pre
    /\ calls = <<>> /\ regens = 0
    /\ ~running /\ queue = {}

\* C33: every rebuildGrid of the fire field leaves an all-zero intensity
\* buffer of gridSize + gridW + 1 cells, also when density, viewport and
\* grid dimensions are what they were: no intensity survives a rebuild.
C33_RebuildClearsFire ==
  fire.op = "rebuild" =>
    /\ Len(fire.buffer) = fire.gridSize + fire.gridW + 1
    /\ \A j \in DOMAIN fire.buffer : fire.buffer[j] = 0

\* a lit grid was rebuilt with the same density and viewport
C33_Witness ==
  /\ fire.op = "rebuild"
  /\ fire.replaced.brightest > 0
  /\ fire.replaced.baseDensity = fire.baseDensity
  /\ fire.replaced.W = fire.W /\ fire.replaced.H = fire.H
  /\ fire.replaced.gridW = fire.gridW /\ fire.replaced.gridH = fire.gridH
  /\ Brightest(fire.buffer) = 0

\* The engines that are created and not destroyed
LiveInstances ==
  {i \in DOMAIN host.instances : host.instances[i].phase = "live"}

\* C31: whatever the order of selector changes, control events and import
\* completions, at most one engine is live; every engine but the current
\* one was paused and destroyed before the next was created, so it has no
\* pending frame and no resize listener, and no frame or resize callback
\* runs on an engine other than the current one.
C31_AtMostOneLiveInstance ==
  /\ Cardinality(LiveInstances) <= 1
  /\ host.currentAnimation \in {0, Len(host.instances)}
  /\ LiveInstances = {host.currentAnimation} \ {0}
  /\ \A i \in DOMAIN host.instances \ {host.currentAnimation} :
       /\ host.instances[i].phase = "destroyed"
       /\ ~host.instances[i].running
       /\ host.instances[i].queue = {}
       /\ ~host.instances[i].listening
  /\ hostLog.ranOn \subseteq {host.currentAnimation} \ {0}

\* a frame ran on the second engine, the first one destroyed
C31_Witness ==
  /\ lastOp = "hostFrame"
  /\ Len(host.instances) = 2
  /\ host.instances[1].phase = "destroyed"
  /\ host.currentAnimation = 2
  /\ hostLog.ranOn = {2}
  /\ host.instances[2].running

\* C32: a selector change that arrives while a load is in flight changes
\* nothing but the selector: it is not queued, and when the load completes
\* the live engine is the one the load was started for, whatever the
\* selector shows.
C32_ChangeDuringLoadIgnored ==
  /\ (lastOp = "select" /\ hostLog.wasLoading) =>
       host = [hostLog.before EXCEPT !.select = host.select]
  /\ host.isLoadingAnimation <=> Len(host.importing) = 1
  /\ Len(host.importing) <= 1
  /\ \A k \in DOMAIN host.importing : host.importing[k] = hostLog.accepted
  /\ (~host.isLoadingAnimation /\ host.currentAnimation # 0) =>
       /\ host.instances[host.currentAnimation].variant
            = ModuleOf(hostLog.accepted)
       /\ host.animName = hostLog.accepted

\* the load for one entry completed after the selector had moved to another
C32_Witness ==
  /\ lastOp = "resolved"
  /\ host.select \in hostLog.ignored
  /\ host.select # hostLog.accepted
  /\ host.currentAnimation # 0
  /\ host.instances[host.currentAnimation].variant
       = ModuleOf(hostLog.accepted)
  /\ host.instances[host.currentAnimation].variant # ModuleOf(host.select)

====
